---- MODULE Spec2Model ----
(***************************************************************************)
(* A model of the SQLocal client (src/src/client.ts): the correlation-keyed *)
(* request/response protocol to the engine worker, the mutation lock, the   *)
(* transaction wrapper, file import/delete and teardown.                    *)
(*                                                                          *)
(* One step of the model is one JavaScript job: the synchronous prefix of a *)
(* call up to its first suspension, or the handling of one inbound message  *)
(* together with the continuation it resumes, up to the next suspension.    *)
(***************************************************************************)
EXTENDS Naturals, FiniteSets, Sequences, TLC

\* ---- bounds of the model ----
NumTasks == 2
NumClients == 2
MaxBodyStmts == 2
MaxHookStmts == 1
TeardownTasks == 3
MaxStatements == 3
MaxSets == 3
MaxStray == 1

Clients == 1..NumClients
NoTask == 0
NoKey == <<0, 0>>

\* Errors are <<origin, step>>: the engine's error payload for a request of
\* a step, the connection error of createQuery, a failure of caller code.
NoErr == <<"none", "none">>
ConnErr == <<"connection", "none">>
EngineErr(step) == <<"engine", step>>

VARIABLES
    task,                 \* one record per call made by the application
    attached,             \* this.worker is defined (browser environment)
    isWorkerDestroyed,    \* this.isWorkerDestroyed
    bypassMutationLock,   \* this.bypassMutationLock
    queriesInProgress,    \* this.queriesInProgress (its key set)
    listening,            \* the worker's message listener is registered
    excl,                 \* the task holding the exclusive lock, or NoTask
    shared,               \* the tasks holding a shared lock
    sent,                 \* every request posted to an engine worker
    answered,             \* <<queryKey, type>> of every answer of the engine
    staged,               \* engine: <<transactionKey, queryKey>> not yet committed
    db,                   \* engine: the statements whose effect is in the database
    notices,              \* the reinitialization notices broadcast
    abandoned,            \* the keys destroy removed from queriesInProgress
    processed,            \* per client, the inbound messages it has processed
    batch,                \* one execBatch: its statements, the response, the list returned
    stray,                \* the inbound terminal messages that answered no request, in order
    uncaught              \* per client, the errors thrown out of processMessageEvent

vars == <<task, attached, isWorkerDestroyed, bypassMutationLock,
          queriesInProgress, listening, excl, shared, sent, answered,
          staged, db, notices, abandoned, processed, batch, stray,
          uncaught>>

Tasks == DOMAIN task

ExclusiveKinds == {"transaction", "overwrite", "delete"}

IdleTask ==
    [kind |-> "none", client |-> 0, pc |-> "idle", step |-> "none",
     hook |-> FALSE, n |-> 0, gen |-> 0, key |-> NoKey, txKey |-> NoKey,
     err |-> NoErr, outcome |-> "none", error |-> NoErr,
     bodyFailed |-> FALSE, deadCall |-> FALSE, parent |-> NoTask]

\* Whether a Worker exists is a property of the environment: the clients of
\* one process are all attached or all unattached.
InitCalls(n) ==
    /\ task = [t \in 1..n |-> IdleTask]
    /\ \E w \in BOOLEAN : attached = [c \in Clients |-> w]
    /\ isWorkerDestroyed = [c \in Clients |-> FALSE]
    /\ bypassMutationLock = [c \in Clients |-> FALSE]
    /\ queriesInProgress = [c \in Clients |-> {}]
    /\ listening = attached
    /\ excl = NoTask
    /\ shared = {}
    /\ sent = {}
    /\ answered = {}
    /\ staged = {}
    /\ db = {}
    /\ notices = {}
    /\ abandoned = {}
    /\ processed = [c \in Clients |-> 0]

\* No execBatch result is being assembled.
NoBatch ==
    [statements |-> 0, type |-> "none", data |-> <<>>, returned |-> <<>>,
     done |-> FALSE]

NoStray == stray = <<>> /\ uncaught = [c \in Clients |-> <<>>]

Init == InitCalls(NumTasks) /\ batch = NoBatch /\ NoStray

\* ---- lib/get-query-key: a fresh token per call ----
GetQueryKey(t, tr) == <<t, tr.gen + 1>>

\* ---- the mutation lock ----
\* A shared request is granted while no exclusive holder exists, an exclusive
\* request while no holder exists; the order in which waiting requests are
\* granted is left open.
\* mutationLock('exclusive', false, ...): the bypass argument of the three
\* exclusive-mode operations.
\* variant: the guarded operations pass the client's flag as bypass
ExclusiveBypassFlag(c) == bypassMutationLock[c]

ExclusiveBypass(c) == FALSE

\* createQuery's bypass argument.
\* variant: createQuery ignores the client's flag
CreateQueryBypassByType(flag, type) ==
    type = "import" \/ type = "delete"

CreateQueryBypass(flag, type) ==
    flag \/ type = "import" \/ type = "delete"

SharedGrantable == excl = NoTask
ExclusiveGrantable == excl = NoTask /\ shared = {}

ReleaseExcl(ex, t) == IF ex = t THEN NoTask ELSE ex

\* ---- createQuery ----
Dead(c) == ~attached[c] \/ isWorkerDestroyed[c]

StepType(tr) ==
    CASE tr.step = "plain" -> (IF tr.kind = "batch" THEN "batch" ELSE "query")
      [] tr.step \in {"stmt", "hookStmt"} -> "query"
      [] tr.step \in {"begin", "commit", "rollback"} -> "transaction"
      [] tr.step = "file" -> (IF tr.kind = "overwrite" THEN "import" ELSE "delete")
      [] OTHER -> "destroy"

\* exec(sql, params, method, transactionKey): the key a statement is tagged with
\* variant: exec drops the transaction key
ExecUntagged(tr) == NoKey

ExecTransactionKey(tr) == IF tr.step = "stmt" THEN tr.txKey ELSE NoKey

Message(t, tr) ==
    [queryKey |-> GetQueryKey(t, tr), client |-> tr.client, task |-> t,
     type |-> StepType(tr),
     action |-> IF tr.step \in {"begin", "commit", "rollback"}
                THEN tr.step ELSE "none",
     transactionKey |-> IF tr.step \in {"begin", "commit", "rollback"}
                        THEN tr.txKey ELSE ExecTransactionKey(tr)]

\* A call ends: its promise settles and whatever it holds is released.  The
\* finally blocks of the exclusive-mode operations reset bypassMutationLock.
Settled(tr, outcome, error) ==
    [tr EXCEPT !.pc = "done", !.step = "none", !.key = NoKey, !.n = 0,
               !.outcome = outcome, !.error = error]

\* variant: the flag is reset on the success path only (no finally block)
FlagLeftSet(fl, tr) == fl

FinallyFlag(fl, tr) ==
    IF tr.kind \in ExclusiveKinds THEN [fl EXCEPT ![tr.client] = FALSE] ELSE fl

Finish(t, tr, outcome, error, fl, ex, sh, tb) ==
    /\ task' = [task EXCEPT ![t] = Settled(tr, outcome, error)]
    /\ bypassMutationLock' = FinallyFlag(fl, tr)
    /\ excl' = ReleaseExcl(ex, t)
    /\ shared' = sh \ {t}
    /\ queriesInProgress' = tb
    /\ sent' = sent

\* The callback createQuery hands to the lock: the connection checks, then
\* the post and the registration of the pending call.  A connection error
\* thrown here leaves every enclosing operation through its catch and
\* finally blocks within the same job (a rollback attempted by the catch
\* block throws the same connection error).
Mutation(t, tr, fl, ex, sh, tb) ==
    IF Dead(tr.client)
    THEN Finish(t, [tr EXCEPT !.bodyFailed = @ \/ tr.step = "stmt"],
                "rejected", ConnErr, fl, ex, sh, tb)
    ELSE /\ task' = [task EXCEPT ![t] =
                [tr EXCEPT !.pc = "await", !.key = GetQueryKey(t, tr),
                           !.gen = tr.gen + 1]]
         /\ sent' = sent \cup {Message(t, tr)}
         /\ queriesInProgress' =
                [tb EXCEPT ![tr.client] = @ \cup {GetQueryKey(t, tr)}]
         /\ bypassMutationLock' = fl
         /\ excl' = ex
         /\ shared' = sh

CreateQuery(t, tr, fl, ex, sh, tb) ==
    IF CreateQueryBypass(fl[tr.client], StepType(tr))
    THEN Mutation(t, tr, fl, ex, sh, tb)
    ELSE /\ task' = [task EXCEPT ![t] = [tr EXCEPT !.pc = "cqWait"]]
         /\ bypassMutationLock' = fl
         /\ excl' = ex
         /\ shared' = sh
         /\ queriesInProgress' = tb
         /\ sent' = sent

\* The shared lock is granted to a waiting createQuery.
Admit(t) ==
    /\ task[t].pc = "cqWait"
    /\ SharedGrantable
    /\ Mutation(t, task[t], bypassMutationLock, excl, shared \cup {t},
                queriesInProgress)
    /\ UNCHANGED <<attached, isWorkerDestroyed, listening, answered, staged,
                   db, notices, abandoned, processed, batch, stray, uncaught>>

\* ---- calls made by the application ----
\* Calls are numbered in the order the application makes them.
Fresh(t) ==
    /\ task[t].pc = "idle"
    /\ IF t = 1 THEN TRUE ELSE task[t - 1].pc # "idle"

NewTask(kind, c, step) ==
    [IdleTask EXCEPT !.kind = kind, !.client = c, !.step = step,
                     !.deadCall = Dead(c)]

Others == <<attached, isWorkerDestroyed, listening, answered, staged, db,
            notices, abandoned, processed, batch, stray, uncaught>>

\* sql: exec -> createQuery({type: 'query'})
Sql(t, c) ==
    /\ Fresh(t)
    /\ CreateQuery(t, NewTask("sql", c, "plain"), bypassMutationLock, excl,
                   shared, queriesInProgress)
    /\ UNCHANGED Others

\* batch: execBatch -> createQuery({type: 'batch'})
Batch(t, c) ==
    /\ Fresh(t)
    /\ CreateQuery(t, NewTask("batch", c, "plain"), bypassMutationLock, excl,
                   shared, queriesInProgress)
    /\ UNCHANGED Others

\* beginTransaction: a transaction key, then the begin request
BeginRequest(t, tr, fl, ex, sh, tb) ==
    CreateQuery(t, [tr EXCEPT !.txKey = GetQueryKey(t, tr),
                              !.gen = tr.gen + 1, !.step = "begin"],
                fl, ex, sh, tb)

BeginTransaction(t, c) ==
    /\ Fresh(t)
    /\ BeginRequest(t, NewTask("begin", c, "begin"), bypassMutationLock, excl,
                    shared, queriesInProgress)
    /\ UNCHANGED Others

\* The callback of transaction(): set the flag, then beginTransaction().
TransactionCallback(t, tr, ex) ==
    BeginRequest(t, tr, [bypassMutationLock EXCEPT ![tr.client] = TRUE], ex,
                 shared, queriesInProgress)

\* The callback of overwriteDatabaseFile()/deleteDatabaseFile(): the import
\* or delete request.
FileCallback(t, tr, ex) ==
    CreateQuery(t, [tr EXCEPT !.step = "file"], bypassMutationLock, ex,
                shared, queriesInProgress)

ExclusiveCallback(t, tr, ex) ==
    IF tr.kind = "transaction"
    THEN TransactionCallback(t, tr, ex)
    ELSE FileCallback(t, tr, ex)

\* mutationLock('exclusive', false, ...) at the start of a guarded operation
RequestExclusive(t, tr) ==
    IF ExclusiveBypass(tr.client)
    THEN ExclusiveCallback(t, tr, excl)
    ELSE /\ task' = [task EXCEPT ![t] = [tr EXCEPT !.pc = "exWait"]]
         /\ UNCHANGED <<bypassMutationLock, excl, shared, queriesInProgress,
                        sent>>

Transaction(t, c) ==
    /\ Fresh(t)
    /\ RequestExclusive(t, NewTask("transaction", c, "none"))
    /\ UNCHANGED Others

OverwriteDatabaseFile(t, c, hook) ==
    /\ Fresh(t)
    /\ RequestExclusive(t, [NewTask("overwrite", c, "none") EXCEPT !.hook = hook])
    /\ UNCHANGED Others

DeleteDatabaseFile(t, c, hook) ==
    /\ Fresh(t)
    /\ RequestExclusive(t, [NewTask("delete", c, "none") EXCEPT !.hook = hook])
    /\ UNCHANGED Others

\* The exclusive lock is granted to a waiting guarded operation.
EnterExclusive(t) ==
    /\ task[t].pc = "exWait"
    /\ ExclusiveGrantable
    /\ ExclusiveCallback(t, task[t], t)
    /\ UNCHANGED Others

\* destroy: createQuery({type: 'destroy'})
Destroy(t, c) ==
    /\ Fresh(t)
    /\ CreateQuery(t, NewTask("destroy", c, "destroy"), bypassMutationLock,
                   excl, shared, queriesInProgress)
    /\ UNCHANGED Others

\* ---- the body of a transaction and the beforeUnlock hook ----
\* A body or hook that called a guarded operation and awaits it does nothing
\* until that operation has settled.
AwaitsInner(t) ==
    \E t2 \in Tasks : task[t2].parent = t /\ task[t2].pc # "done"

\* A call resumes after a request and suspends again: the shared lock of the
\* answered createQuery, if it took one, is released.
Suspend(t, tr, fl, sh, tb) ==
    /\ task' = [task EXCEPT ![t] = tr]
    /\ bypassMutationLock' = fl
    /\ excl' = excl
    /\ shared' = sh \ {t}
    /\ queriesInProgress' = tb
    /\ sent' = sent

\* The catch block of transaction(): tx is defined once begin was
\* acknowledged; the rollback is awaited and the caught error kept.
\* variant: the catch block commits
CatchCommits(t, tr, e, tb) ==
    CreateQuery(t, [tr EXCEPT !.step = "commit", !.err = e],
                bypassMutationLock, excl, shared, tb)

\* variant: the catch block rethrows without a rollback
CatchRethrows(t, tr, e, tb) ==
    Finish(t, [tr EXCEPT !.err = e], "rejected", e, bypassMutationLock, excl,
           shared, tb)

Catch(t, tr, e, tb) ==
    CreateQuery(t, [tr EXCEPT !.step = "rollback", !.err = e],
                bypassMutationLock, excl, shared, tb)

\* tx.sql / tx.query inside the body of transaction()
BodySql(t) ==
    /\ task[t].pc = "body"
    /\ ~AwaitsInner(t)
    /\ task[t].n < MaxBodyStmts
    /\ CreateQuery(t, [task[t] EXCEPT !.step = "stmt"], bypassMutationLock,
                   excl, shared, queriesInProgress)
    /\ UNCHANGED Others

\* the body throws an error of its own
BodyThrow(t) ==
    /\ task[t].pc = "body"
    /\ ~AwaitsInner(t)
    /\ Catch(t, [task[t] EXCEPT !.bodyFailed = TRUE], <<"body", "none">>,
             queriesInProgress)
    /\ UNCHANGED Others

\* the body returns: tx.commit()
BodyReturn(t) ==
    /\ task[t].pc = "body"
    /\ ~AwaitsInner(t)
    /\ CreateQuery(t, [task[t] EXCEPT !.step = "commit"], bypassMutationLock,
                   excl, shared, queriesInProgress)
    /\ UNCHANGED Others

\* a transaction opened by beginTransaction(): its commit and rollback handles
Commit(t) ==
    /\ task[t].pc = "open"
    /\ CreateQuery(t, [task[t] EXCEPT !.step = "commit"], bypassMutationLock,
                   excl, shared, queriesInProgress)
    /\ UNCHANGED Others

Rollback(t) ==
    /\ task[t].pc = "open"
    /\ CreateQuery(t, [task[t] EXCEPT !.step = "rollback"], bypassMutationLock,
                   excl, shared, queriesInProgress)
    /\ UNCHANGED Others

\* the beforeUnlock hook queries the database through the same client
HookSql(t) ==
    /\ task[t].pc = "hook"
    /\ ~AwaitsInner(t)
    /\ task[t].n < MaxHookStmts
    /\ CreateQuery(t, [task[t] EXCEPT !.step = "hookStmt"], bypassMutationLock,
                   excl, shared, queriesInProgress)
    /\ UNCHANGED Others

HookThrow(t) ==
    /\ task[t].pc = "hook"
    /\ ~AwaitsInner(t)
    /\ Finish(t, task[t], "rejected", <<"hook", "none">>, bypassMutationLock,
              excl, shared, queriesInProgress)
    /\ UNCHANGED Others

\* reinitChannel.postMessage(clientKey), then the finally block.  Posting to
\* a channel that destroy() closed throws.
Broadcast(t, tr, fl, tb) ==
    IF isWorkerDestroyed[tr.client]
    THEN /\ Finish(t, tr, "rejected", <<"channel", "none">>, fl, excl, shared, tb)
         /\ notices' = notices
    ELSE /\ Finish(t, tr, "resolved", NoErr, fl, excl, shared, tb)
         /\ notices' = notices \cup {[client |-> tr.client, task |-> t]}

HookReturn(t) ==
    /\ task[t].pc = "hook"
    /\ ~AwaitsInner(t)
    /\ Broadcast(t, task[t], bypassMutationLock, queriesInProgress)
    /\ UNCHANGED <<attached, isWorkerDestroyed, listening, answered, staged,
                   db, abandoned, processed, batch, stray, uncaught>>

\* A guarded operation of a client of the same lock scope is called and
\* awaited by the body or hook of the operation t.
NestedCall(t, t2, kind, c, hook) ==
    /\ ~AwaitsInner(t)
    /\ Fresh(t2)
    /\ kind \in ExclusiveKinds
    /\ RequestExclusive(t2, [NewTask(kind, c, "none") EXCEPT
                                !.parent = t,
                                !.hook = hook /\ kind # "transaction"])
    /\ UNCHANGED Others

\* the body of transaction() calls and awaits a guarded operation
BodyNested(t, t2, kind, c, hook) ==
    /\ task[t].pc = "body"
    /\ NestedCall(t, t2, kind, c, hook)

\* the beforeUnlock hook does the same
HookNested(t, t2, kind, c, hook) ==
    /\ task[t].pc = "hook"
    /\ NestedCall(t, t2, kind, c, hook)

\* ---- the engine worker ----
\* The engine applies the statements tagged with a transaction key when that
\* key is committed and discards them when it is rolled back; a statement
\* without a transaction key takes effect at once; an import or a delete
\* replaces the database.  A request the engine rejects has no effect.
EngineAnswers(m) ==
    IF m.type \in {"query", "batch"} THEN {"data", "error"}
    ELSE {"success", "error"}

Answered(k) == \E a \in answered : a[1] = k

StagedOf(k) == {p \in staged : p[1] = k}

EngineStaged(m, type) ==
    CASE type = "error" -> staged
      [] m.type = "query" /\ m.transactionKey # NoKey ->
            staged \cup {<<m.transactionKey, m.queryKey>>}
      [] m.type = "transaction" /\ m.action \in {"commit", "rollback"} ->
            staged \ StagedOf(m.transactionKey)
      [] OTHER -> staged

EngineDb(m, type) ==
    CASE type = "error" -> db
      [] m.type \in {"query", "batch"} /\ m.transactionKey = NoKey ->
            db \cup {m.queryKey}
      [] m.type = "transaction" /\ m.action = "commit" ->
            db \cup {p[2] : p \in StagedOf(m.transactionKey)}
      [] m.type \in {"import", "delete"} -> {}
      [] OTHER -> db

\* ---- processMessageEvent ----
\* A terminal message whose key is pending settles that call and removes the
\* entry.  The engine's answer and its arrival are one step.
Matches(m) == m.queryKey \in queriesInProgress[m.client]

Removed(m) == [queriesInProgress EXCEPT ![m.client] = @ \ {m.queryKey}]

\* queries.get(message.queryKey): the call whose resolve and reject handles
\* are registered under the key
\* variant: the handles of any pending call of the client
ResolverOfAny(c, k) ==
    CHOOSE t \in Tasks : task[t].client = c /\ task[t].pc = "await"

Resolver(c, k) ==
    CHOOSE t \in Tasks :
        task[t].client = c /\ task[t].pc = "await" /\ task[t].key = k

Callee(m) == Resolver(m.client, m.queryKey)

Receive(m, type, step) ==
    /\ m \in sent
    /\ ~Answered(m.queryKey)
    /\ type \in EngineAnswers(m)
    /\ listening[m.client]
    /\ Matches(m)
    /\ task[Callee(m)].step = step
    /\ answered' = answered \cup {<<m.queryKey, type>>}
    /\ staged' = EngineStaged(m, type)
    /\ db' = EngineDb(m, type)
    /\ processed' = [processed EXCEPT ![m.client] = @ + 1]
    /\ UNCHANGED <<attached, isWorkerDestroyed, listening, abandoned, batch, stray, uncaught>>

\* The awaiting call resumes: the caller of sql or batch.
OnPlain(m, type) ==
    /\ Receive(m, type, "plain")
    /\ IF type = "error"
       THEN Finish(Callee(m), task[Callee(m)], "rejected", EngineErr("plain"),
                   bypassMutationLock, excl, shared, Removed(m))
       ELSE Finish(Callee(m), task[Callee(m)], "resolved", NoErr,
                   bypassMutationLock, excl, shared, Removed(m))
    /\ UNCHANGED notices

\* beginTransaction resumes.  In transaction() a failed begin leaves tx
\* undefined: no rollback, the error is rethrown.
OnBegin(m, type) ==
    /\ Receive(m, type, "begin")
    /\ LET t == Callee(m)
           tr == task[t]
       IN IF type = "error"
          THEN Finish(t, tr, "rejected", EngineErr("begin"),
                      bypassMutationLock, excl, shared, Removed(m))
          ELSE Suspend(t, [tr EXCEPT !.key = NoKey,
                              !.pc = IF tr.kind = "transaction"
                                     THEN "body" ELSE "open"],
                       bypassMutationLock, shared, Removed(m))
    /\ UNCHANGED notices

\* a statement of the body resumes; its failure is the body's failure
OnStmt(m, type) ==
    /\ Receive(m, type, "stmt")
    /\ LET t == Callee(m)
           tr == task[t]
       IN IF type = "error"
          THEN Catch(t, [tr EXCEPT !.bodyFailed = TRUE], EngineErr("stmt"),
                     Removed(m))
          ELSE Suspend(t, [tr EXCEPT !.key = NoKey, !.pc = "body",
                                     !.n = tr.n + 1],
                       bypassMutationLock, shared, Removed(m))
    /\ UNCHANGED notices

\* tx.commit() resumes
OnCommit(m, type) ==
    /\ Receive(m, type, "commit")
    /\ LET t == Callee(m)
           tr == task[t]
       IN IF type # "error"
          THEN Finish(t, tr, "resolved", NoErr, bypassMutationLock, excl,
                      shared, Removed(m))
          ELSE IF tr.kind = "transaction"
          THEN Catch(t, tr, EngineErr("commit"), Removed(m))
          ELSE Finish(t, tr, "rejected", EngineErr("commit"),
                      bypassMutationLock, excl, shared, Removed(m))
    /\ UNCHANGED notices

\* The error transaction() ends with once the rollback of its catch block
\* has settled: `await tx?.rollback(); throw err`.
CatchOutcome(err, type) ==
    IF type = "error" THEN EngineErr("rollback") ELSE err

\* tx.rollback() resumes
OnRollback(m, type) ==
    /\ Receive(m, type, "rollback")
    /\ LET t == Callee(m)
           tr == task[t]
       IN IF tr.kind = "transaction"
          THEN Finish(t, tr, "rejected", CatchOutcome(tr.err, type),
                      bypassMutationLock, excl, shared, Removed(m))
          ELSE IF type = "error"
          THEN Finish(t, tr, "rejected", EngineErr("rollback"),
                      bypassMutationLock, excl, shared, Removed(m))
          ELSE Finish(t, tr, "resolved", NoErr, bypassMutationLock, excl,
                      shared, Removed(m))
    /\ UNCHANGED notices

\* the import or delete request of overwriteDatabaseFile/deleteDatabaseFile
OnFile(m, type) ==
    /\ Receive(m, type, "file")
    /\ LET t == Callee(m)
           tr == task[t]
       IN IF type = "error"
          THEN /\ Finish(t, tr, "rejected", EngineErr("file"),
                         bypassMutationLock, excl, shared, Removed(m))
               /\ UNCHANGED notices
          ELSE IF tr.hook
          THEN /\ Suspend(t, [tr EXCEPT !.key = NoKey, !.pc = "hook"],
                          [bypassMutationLock EXCEPT ![tr.client] = TRUE],
                          shared, Removed(m))
               /\ UNCHANGED notices
          ELSE Broadcast(t, tr, bypassMutationLock, Removed(m))

\* a query of the beforeUnlock hook resumes; its failure is the hook's
OnHookStmt(m, type) ==
    /\ Receive(m, type, "hookStmt")
    /\ LET t == Callee(m)
           tr == task[t]
       IN IF type = "error"
          THEN Finish(t, tr, "rejected", EngineErr("hookStmt"),
                      bypassMutationLock, excl, shared, Removed(m))
          ELSE Suspend(t, [tr EXCEPT !.key = NoKey, !.pc = "hook",
                                     !.n = tr.n + 1],
                       bypassMutationLock, shared, Removed(m))
    /\ UNCHANGED notices

\* ---- destroy ----
\* The destroy request was answered: createQuery returns and the shared lock
\* is released; the rest of destroy() runs in a later job.
OnDestroy(m, type) ==
    /\ Receive(m, type, "destroy")
    /\ LET t == Callee(m)
           tr == task[t]
       IN IF type = "error"
          THEN Finish(t, tr, "rejected", EngineErr("destroy"),
                      bypassMutationLock, excl, shared, Removed(m))
          ELSE Suspend(t, [tr EXCEPT !.key = NoKey, !.pc = "teardown"],
                       bypassMutationLock, shared, Removed(m))
    /\ UNCHANGED notices

\* variant: destroy only marks the client destroyed
DestroyKeepsListening(t) ==
    /\ task[t].pc = "teardown"
    /\ isWorkerDestroyed' =
           [isWorkerDestroyed EXCEPT ![task[t].client] = TRUE]
    /\ task' = [task EXCEPT ![t] = Settled(task[t], "resolved", NoErr)]
    /\ UNCHANGED <<attached, bypassMutationLock, queriesInProgress, listening,
                   excl, shared, sent, answered, staged, db, notices,
                   abandoned, processed, batch, stray, uncaught>>

\* removeEventListener, queriesInProgress.clear(), reinitChannel.close(),
\* terminate(), isWorkerDestroyed = true
DestroyTeardown(t) ==
    /\ task[t].pc = "teardown"
    /\ LET c == task[t].client
       IN /\ listening' = [listening EXCEPT ![c] = FALSE]
          /\ abandoned' = abandoned \cup queriesInProgress[c]
          /\ queriesInProgress' = [queriesInProgress EXCEPT ![c] = {}]
          /\ isWorkerDestroyed' = [isWorkerDestroyed EXCEPT ![c] = TRUE]
    /\ task' = [task EXCEPT ![t] = Settled(task[t], "resolved", NoErr)]
    /\ UNCHANGED <<attached, bypassMutationLock, excl, shared, sent, answered,
                   staged, db, notices, processed, batch, stray, uncaught>>

\* ---- the specification ----
Hooks == BOOLEAN

Next ==
    \/ \E t \in Tasks, c \in Clients : Sql(t, c)
    \/ \E t \in Tasks, c \in Clients : Batch(t, c)
    \/ \E t \in Tasks, c \in Clients : BeginTransaction(t, c)
    \/ \E t \in Tasks, c \in Clients : Transaction(t, c)
    \/ \E t \in Tasks, c \in Clients, h \in Hooks : OverwriteDatabaseFile(t, c, h)
    \/ \E t \in Tasks, c \in Clients, h \in Hooks : DeleteDatabaseFile(t, c, h)
    \/ \E t \in Tasks, c \in Clients : Destroy(t, c)
    \/ \E t \in Tasks : Admit(t)
    \/ \E t \in Tasks : EnterExclusive(t)
    \/ \E t \in Tasks : BodySql(t)
    \/ \E t \in Tasks : BodyThrow(t)
    \/ \E t \in Tasks : BodyReturn(t)
    \/ \E t \in Tasks : Commit(t)
    \/ \E t \in Tasks : Rollback(t)
    \/ \E t \in Tasks : HookSql(t)
    \/ \E t \in Tasks : HookThrow(t)
    \/ \E t \in Tasks : HookReturn(t)
    \/ \E m \in sent, type \in {"success", "data", "error"} : OnPlain(m, type)
    \/ \E m \in sent, type \in {"success", "data", "error"} : OnBegin(m, type)
    \/ \E m \in sent, type \in {"success", "data", "error"} : OnStmt(m, type)
    \/ \E m \in sent, type \in {"success", "data", "error"} : OnCommit(m, type)
    \/ \E m \in sent, type \in {"success", "data", "error"} : OnRollback(m, type)
    \/ \E m \in sent, type \in {"success", "data", "error"} : OnFile(m, type)
    \/ \E m \in sent, type \in {"success", "data", "error"} : OnHookStmt(m, type)
    \/ \E m \in sent, type \in {"success", "data", "error"} : OnDestroy(m, type)
    \/ \E t \in Tasks : DestroyTeardown(t)

Spec == Init /\ [][Next]_vars

\* The calls of the application together with guarded operations called from
\* inside a transaction body or a beforeUnlock hook.
NextNested ==
    \/ Next
    \/ \E t \in Tasks, t2 \in Tasks, kind \in ExclusiveKinds, c \in Clients,
          h \in Hooks : BodyNested(t, t2, kind, c, h)
    \/ \E t \in Tasks, t2 \in Tasks, kind \in ExclusiveKinds, c \in Clients,
          h \in Hooks : HookNested(t, t2, kind, c, h)

SpecNested == Init /\ [][NextNested]_vars

\* What happens without a further call of the application: the lock grants a
\* request it can grant, the engine answers a request, a transaction body or
\* a beforeUnlock hook takes its next step, destroy finishes.
Progress ==
    \/ \E t \in Tasks : Admit(t)
    \/ \E t \in Tasks : EnterExclusive(t)
    \/ \E t \in Tasks : BodySql(t) \/ BodyThrow(t) \/ BodyReturn(t)
    \/ \E t \in Tasks : HookSql(t) \/ HookThrow(t) \/ HookReturn(t)
    \/ \E m \in sent, type \in {"success", "data", "error"} :
          \/ OnPlain(m, type) \/ OnBegin(m, type) \/ OnStmt(m, type)
          \/ OnCommit(m, type) \/ OnRollback(m, type) \/ OnFile(m, type)
          \/ OnHookStmt(m, type) \/ OnDestroy(m, type)
    \/ \E t \in Tasks : DestroyTeardown(t)

\* The engine answers every request, the lock grants what it can, and the
\* code handed to transaction() and to the file operations terminates.
SpecLive == Init /\ [][Next]_vars /\ WF_vars(Progress)

\* Three calls among sql, transaction and destroy: teardown of a client
\* while other calls are waiting or pending.
InitTeardown == InitCalls(TeardownTasks) /\ batch = NoBatch /\ NoStray

NextTeardown ==
    \/ \E t \in Tasks, c \in Clients : Sql(t, c)
    \/ \E t \in Tasks, c \in Clients : Transaction(t, c)
    \/ \E t \in Tasks, c \in Clients : Destroy(t, c)
    \/ \E t \in Tasks : Admit(t)
    \/ \E t \in Tasks : EnterExclusive(t)
    \/ \E t \in Tasks : BodySql(t)
    \/ \E t \in Tasks : BodyThrow(t)
    \/ \E t \in Tasks : BodyReturn(t)
    \/ \E m \in sent, type \in {"success", "data", "error"} : OnPlain(m, type)
    \/ \E m \in sent, type \in {"success", "data", "error"} : OnBegin(m, type)
    \/ \E m \in sent, type \in {"success", "data", "error"} : OnStmt(m, type)
    \/ \E m \in sent, type \in {"success", "data", "error"} : OnCommit(m, type)
    \/ \E m \in sent, type \in {"success", "data", "error"} : OnRollback(m, type)
    \/ \E m \in sent, type \in {"success", "data", "error"} : OnDestroy(m, type)
    \/ \E t \in Tasks : DestroyTeardown(t)

SpecTeardown == InitTeardown /\ [][NextTeardown]_vars

\* ---- terminal messages that answer no pending call ----
\* An engine worker can post a terminal message on its own (a fatal failure,
\* a notice): it carries no key, or a key that is not pending.
StrayKey == <<0, 1>>
FatalErr == <<"engine", "fatal">>

\* The arm of processMessageEvent a terminal message takes.
\* variant: an error message without a pending key is dropped
DispatchArmSilent(c, k, type) ==
    IF k # NoKey /\ k \in queriesInProgress[c] THEN "settle" ELSE "ignore"

DispatchArm(c, k, type) ==
    IF k # NoKey /\ k \in queriesInProgress[c] THEN "settle"
    ELSE IF type = "error" THEN "throw"
    ELSE "ignore"

Unprompted(c, k, type) ==
    /\ listening[c]
    /\ Len(stray) < MaxStray
    /\ DispatchArm(c, k, type) # "settle"
    /\ stray' = Append(stray, [client |-> c, queryKey |-> k, type |-> type])
    /\ uncaught' = IF DispatchArm(c, k, type) = "throw"
                   THEN [uncaught EXCEPT ![c] = Append(@, FatalErr)]
                   ELSE uncaught
    /\ processed' = [processed EXCEPT ![c] = @ + 1]
    /\ UNCHANGED <<task, attached, isWorkerDestroyed, bypassMutationLock,
                   queriesInProgress, listening, excl, shared, sent, answered,
                   staged, db, notices, abandoned, batch>>

NextDispatch ==
    \/ Next
    \/ \E c \in Clients, k \in {NoKey, StrayKey},
          type \in {"success", "data", "info", "error"} : Unprompted(c, k, type)

SpecDispatch == Init /\ [][NextDispatch]_vars

\* ---- execBatch: the list it returns ----
\* Result sets are opaque values; EmptyResult is {rows: [], columns: []}.
EmptyResult == "empty"
RawResults == {EmptyResult, "r1", "r2"}

\* new Array(statements.length).fill({rows: [], columns: []})
ArrayFill(n, v) == [i \in 1..n |-> v]

\* data[resultIndex] = result: a store at the index just past the end of a
\* JavaScript array lengthens the array.
ArrayStore(a, i, v) ==
    IF i <= Len(a) THEN [a EXCEPT ![i] = v] ELSE Append(a, v)

\* message.data.forEach((result, resultIndex) => {data[resultIndex] = result}),
\* from index i on
RECURSIVE ForEachStore(_, _, _)
ForEachStore(a, results, i) ==
    IF i > Len(results) THEN a
    ELSE ForEachStore(ArrayStore(a, i, results[i]), results, i + 1)

\* variant: execBatch never reads the data envelope
ExecBatchDefaults(n, type, results) == ArrayFill(n, EmptyResult)

ExecBatch(n, type, results) ==
    IF type = "data"
    THEN ForEachStore(ArrayFill(n, EmptyResult), results, 1)
    ELSE ArrayFill(n, EmptyResult)

\* The envelopes createQuery can resolve with, for every number of
\* statements and of result sets.
ResultLists == UNION {[1..k -> RawResults] : k \in 0..MaxSets}

BatchInputs ==
    [statements : 0..MaxStatements, type : {"data", "success", "info"},
     data : ResultLists, returned : {<<>>}, done : {FALSE}]

InitBatch == InitCalls(NumTasks) /\ batch \in BatchInputs /\ NoStray

\* execBatch resumes with the envelope and returns
ExecBatchReturns ==
    /\ ~batch.done
    /\ batch' = [batch EXCEPT
                    !.returned = ExecBatch(batch.statements, batch.type, batch.data),
                    !.done = TRUE]
    /\ UNCHANGED <<task, attached, isWorkerDestroyed, bypassMutationLock,
                   queriesInProgress, listening, excl, shared, sent, answered,
                   staged, db, notices, abandoned, processed, stray, uncaught>>

NextBatch == ExecBatchReturns

SpecBatch == InitBatch /\ [][NextBatch]_vars

\* ---- the claims ----
SentBy(t) == {m \in sent : m.task = t}

\* an exclusive-mode operation between its first request and its end
InRoundTrips(t) ==
    /\ task[t].kind \in ExclusiveKinds
    /\ SentBy(t) # {}
    /\ task[t].pc # "done"

\* C1: no two exclusive-mode operations (transaction wrapper, file import,
\* file delete) of clients sharing the lock have overlapping engine round
\* trips: while one is between its first request and the settling of its
\* last response, no other has sent a request.
C1_ExclusiveRoundTripsDisjoint ==
    \A t1, t2 \in Tasks :
        InRoundTrips(t1) /\ InRoundTrips(t2) => t1 = t2

\* one exclusive operation is in its round trips while another waits
C1_Witness ==
    \E t1, t2 \in Tasks :
        /\ InRoundTrips(t1)
        /\ task[t2].kind \in ExclusiveKinds
        /\ task[t2].pc = "exWait"

\* a session is begun from its begin request until its call has ended
Begun(t) ==
    /\ task[t].kind \in {"transaction", "begin"}
    /\ \E m \in SentBy(t) : m.action = "begin"
    /\ task[t].pc # "done"

\* C2: while a transaction() wrapper is between its begin request and the
\* settling of its commit or rollback, no query or batch request of another
\* caller is sent to the engine.
C2_NoForeignStatementInSession ==
    [][\A m \in sent' \ sent :
          m.type \in {"query", "batch"} =>
              \A t \in Tasks \ {m.task} :
                  ~(task[t].kind = "transaction" /\ Begun(t))]_vars

C4_TransactionKey ==
    /\ \A m \in sent :
          IF task[m.task].kind \in {"transaction", "begin"}
          THEN m.transactionKey = task[m.task].txKey /\ m.transactionKey # NoKey
          ELSE m.transactionKey = NoKey
    /\ \A m1, m2 \in sent :
          m1.transactionKey = m2.transactionKey /\ m1.transactionKey # NoKey
              => m1.task = m2.task

\* a session has sent a statement and its commit, and another call a request
C4_Witness ==
    \E t1, t2 \in Tasks :
        /\ t1 # t2
        /\ \E m \in SentBy(t1) : m.type = "query" /\ m.transactionKey # NoKey
        /\ \E m \in SentBy(t1) : m.action = "commit"
        /\ SentBy(t2) # {}

\* C5: once a transaction() whose body failed has settled, no statement of
\* that session has its effect in the database.
C5_FailedBodyLeavesNoEffect ==
    \A t \in Tasks :
        task[t].kind = "transaction" /\ task[t].pc = "done" /\ task[t].bodyFailed
            => \A m \in SentBy(t) : m.queryKey \notin db

\* the first statement succeeded, the second was rejected, the call settled
C5_Witness ==
    \E t \in Tasks :
        /\ task[t].kind = "transaction" /\ task[t].pc = "done"
        /\ task[t].bodyFailed
        /\ \E m1, m2 \in SentBy(t) :
              /\ m1.type = "query" /\ <<m1.queryKey, "data">> \in answered
              /\ m2.type = "query" /\ <<m2.queryKey, "error">> \in answered

RollbacksOf(t) == {m \in SentBy(t) : m.action = "rollback"}
CommitsOf(t) == {m \in SentBy(t) : m.action = "commit"}

\* the body of a transaction() fails in this step
BodyFails(t) == task'[t].bodyFailed /\ ~task[t].bodyFailed

\* a transaction() whose body had failed settles in this step
FailedSettles(t) ==
    /\ task[t].kind = "transaction"
    /\ task[t].bodyFailed
    /\ task[t].pc # "done"
    /\ task'[t].pc = "done"

\* the rollback is sent in the step of the failure, under the lock
RollbackSent(t) ==
    /\ task'[t].pc = "await"
    /\ task'[t].step = "rollback"
    /\ RollbacksOf(t)' = {m \in sent' \ sent : m.task = t}
    /\ Cardinality(RollbacksOf(t)') = 1
    /\ \A m \in RollbacksOf(t)' :
          m.transactionKey = task[t].txKey /\ m.queryKey = task'[t].key
    /\ CommitsOf(t)' = {}
    /\ excl' = t

\* the call settles in the step that answers its one rollback
RollbackAwaited(t) ==
    /\ task[t].pc = "await"
    /\ task[t].step = "rollback"
    /\ excl = t
    /\ Cardinality(RollbacksOf(t)') = 1
    /\ \A m \in RollbacksOf(t)' : m.queryKey = task[t].key /\ Answered(m.queryKey)'
    /\ CommitsOf(t)' = {}
    /\ task'[t].outcome = "rejected"

\* C6 as stated: whenever the body of a transaction() fails after begin was
\* acknowledged, exactly one rollback request with the session's key is
\* sent, and it is awaited before the failure is re-raised and the lock
\* released; no commit request is sent.
C6_RollbackOnBodyFailure ==
    [][\A t \in Tasks :
          /\ BodyFails(t) => RollbackSent(t)
          /\ FailedSettles(t) => RollbackAwaited(t)]_vars

\* C6 amended: the same, for a body that fails while the client has not
\* been destroyed.
C6_RollbackUnlessDestroyed ==
    [][\A t \in Tasks :
          /\ BodyFails(t) /\ ~isWorkerDestroyed[task[t].client]
                => RollbackSent(t)
          /\ FailedSettles(t) => RollbackAwaited(t)]_vars

\* a transaction() whose body failed has settled after its rollback
C6_Witness ==
    \E t \in Tasks :
        /\ task[t].kind = "transaction" /\ task[t].pc = "done"
        /\ task[t].bodyFailed
        /\ \E m \in RollbacksOf(t) : Answered(m.queryKey)
        /\ ~isWorkerDestroyed[task[t].client]

EngineRejected(m) == <<m.queryKey, "error">> \in answered

\* C7: when the body or the commit fails with E and the engine rejects the
\* automatic rollback with R, transaction() rejects with E.
C7_RollbackErrorKeepsOriginal ==
    \A t \in Tasks :
        /\ task[t].kind = "transaction"
        /\ task[t].pc = "done"
        /\ \E m \in RollbacksOf(t) : EngineRejected(m)
        => task[t].outcome = "rejected" /\ task[t].error = task[t].err

\* C8: transaction() resolves only if the engine acknowledged the commit,
\* and then no rollback was sent; if the engine rejects the commit, the call
\* rejects with that commit failure.
C8_CommitDecidesOutcome ==
    \A t \in Tasks :
        task[t].kind = "transaction" /\ task[t].pc = "done" =>
            /\ task[t].outcome = "resolved" =>
                  /\ \E m \in CommitsOf(t) : <<m.queryKey, "success">> \in answered
                  /\ RollbacksOf(t) = {}
            /\ (\E m \in CommitsOf(t) : EngineRejected(m)) =>
                  /\ task[t].outcome = "rejected"
                  /\ task[t].error = EngineErr("commit")

\* C9: a call whose key was in queriesInProgress when destroy cleared it is
\* never settled afterwards, and a destroyed client processes no message and
\* registers no pending call.
C9_DestroyAbandonsPending ==
    [][/\ \A t \in Tasks :
             task[t].key \in abandoned =>
                 task'[t] = task[t] /\ task[t].outcome = "none"
       /\ \A c \in Clients :
             isWorkerDestroyed[c] =>
                 /\ processed'[c] = processed[c]
                 /\ queriesInProgress'[c] = {}]_vars

\* a client was destroyed while a call was pending
C9_Witness ==
    \E t \in Tasks :
        /\ task[t].key \in abandoned
        /\ task[t].pc = "await"
        /\ isWorkerDestroyed[task[t].client]

\* a call is made in this step on a destroyed or never attached client
DeadCallMade(t) ==
    /\ task[t].pc = "idle"
    /\ task'[t].pc # "idle"
    /\ Dead(task'[t].client)

\* C10: a call made on a destroyed or never attached client posts no message
\* and registers no pending call, and it fails with a connection error at
\* once even while another holder has the exclusive lock.
C10_DeadCallFailsAtOnce ==
    [][\A t \in Tasks :
          /\ DeadCallMade(t) /\ excl # NoTask =>
                /\ task'[t].pc = "done"
                /\ task'[t].outcome = "rejected"
                /\ task'[t].error = ConnErr
          /\ task'[t].deadCall =>
                /\ SentBy(t)' = {}
                /\ task'[t].key = NoKey
                /\ task'[t].pc = "done" =>
                      task'[t].outcome = "rejected" /\ task'[t].error = ConnErr]_vars

\* C11: every key of the pending call table belongs to exactly one posted
\* request that is not yet answered and to exactly one awaiting call; an
\* entry leaves the table once, by the answer that echoes its key or by
\* destroy; a call that resumes does so on the answer to its own key, a
\* plain call with that answer's verdict, and a settled call never changes.
PendingCalls(c, k) ==
    {t \in Tasks : task[t].client = c /\ task[t].pc = "await" /\ task[t].key = k}

PostedWith(c, k) == {m \in sent : m.client = c /\ m.queryKey = k}

TableExact ==
    \A c \in Clients : \A k \in queriesInProgress[c] :
        /\ Cardinality(PostedWith(c, k)) = 1
        /\ Cardinality({m \in sent : m.queryKey = k}) = 1
        /\ ~Answered(k)
        /\ Cardinality(PendingCalls(c, k)) = 1

C11_PendingTableCorrelates ==
    [][/\ TableExact'
       /\ \A c \in Clients : \A k \in queriesInProgress[c] :
             k \notin queriesInProgress'[c] =>
                 \/ answered' \ answered \in {{<<k, "success">>},
                                              {<<k, "data">>}, {<<k, "error">>}}
                 \/ k \in abandoned' \ abandoned
       /\ \A c \in Clients : \A k \in queriesInProgress'[c] :
             k \in queriesInProgress[c] \/ PostedWith(c, k) = {}
       /\ \A t \in Tasks :
             /\ task[t].pc = "await" /\ task'[t] # task[t] =>
                   /\ \E a \in answered' \ answered : a[1] = task[t].key
                   /\ task[t].key \notin queriesInProgress'[task[t].client]
                   /\ task[t].step = "plain" =>
                         /\ task'[t].pc = "done"
                         /\ task'[t].outcome = "rejected" <=>
                                <<task[t].key, "error">> \in answered'
             /\ task[t].outcome # "none" => task'[t] = task[t]]_vars

\* two plain calls of one client were pending together and the one made
\* second was answered first
C11_Witness ==
    \E t1 \in Tasks, t2 \in Tasks :
        /\ t1 < t2
        /\ task[t1].client = task[t2].client
        /\ task[t1].kind \in {"sql", "batch"} /\ task[t2].kind \in {"sql", "batch"}
        /\ task[t1].pc = "await" /\ task[t1].key \in queriesInProgress[task[t1].client]
        /\ task[t2].outcome = "resolved"
        /\ \E m \in SentBy(t2) : m.queryKey[2] = 1

\* C12: when a guarded operation (transaction, overwriteDatabaseFile,
\* deleteDatabaseFile) ends by a thrown failure, in that same step the
\* exclusive lock has no holder, the operation holds no shared lock and its
\* client's bypassMutationLock is false; an operation that has ended never
\* holds the lock, so a later operation can be admitted.
ThrowsNow(t) ==
    /\ task[t].kind \in ExclusiveKinds
    /\ task[t].outcome = "none"
    /\ task'[t].outcome = "rejected"

C12_ThrownFailureReleasesLock ==
    [][\A t \in Tasks :
          /\ ThrowsNow(t) =>
                /\ excl' = NoTask
                /\ t \notin shared'
                /\ ~bypassMutationLock'[task[t].client]
          /\ task[t].pc = "done" => excl' # t]_vars

\* an overwrite or delete was left by its throwing hook, and a guarded
\* operation called after it now holds the exclusive lock
C12_Witness ==
    \E t1 \in Tasks, t2 \in Tasks :
        /\ t1 < t2
        /\ task[t1].kind \in {"overwrite", "delete"}
        /\ task[t1].outcome = "rejected"
        /\ task[t1].error = <<"hook", "none">>
        /\ task[t2].kind \in ExclusiveKinds
        /\ task[t2].client = task[t1].client
        /\ excl = t2

\* C13: an overwriteDatabaseFile or deleteDatabaseFile whose import or delete
\* request the engine acknowledged has posted the reinitialization notice of
\* its client by the time it no longer holds the exclusive lock, and one
\* whose request was not acknowledged has posted none.
FileRequests(t) == {m \in SentBy(t) : m.type \in {"import", "delete"}}

FileAcknowledged(t) ==
    \E m \in FileRequests(t) : <<m.queryKey, "success">> \in answered

NoticeOf(t) == [client |-> task[t].client, task |-> t]

C13_AcknowledgedFileOpBroadcasts ==
    \A t \in Tasks :
        task[t].kind \in {"overwrite", "delete"} =>
            /\ FileAcknowledged(t) /\ excl # t => NoticeOf(t) \in notices
            /\ ~FileAcknowledged(t) => NoticeOf(t) \notin notices

\* C14: execBatch with N statements returns exactly N entries, whatever the
\* number of result sets in the envelope: entry i is the engine's i-th set
\* when a data envelope carries one, and the empty result otherwise.
SlotsInOrder ==
    \A i \in 1..batch.statements :
        /\ i <= Len(batch.returned)
        /\ batch.returned[i] =
              IF batch.type = "data" /\ i <= Len(batch.data)
              THEN batch.data[i] ELSE EmptyResult

C14_BatchReturnsNSets ==
    batch.done => SlotsInOrder /\ Len(batch.returned) = batch.statements

\* C14, amended: the first N entries are as stated; the list has N entries
\* unless a data envelope carries more than N sets, and then as many as the
\* envelope carries, each the engine's set.
C14_BatchReturnsAtLeastNSets ==
    batch.done =>
        /\ SlotsInOrder
        /\ Len(batch.returned) =
              IF batch.type = "data" /\ Len(batch.data) > batch.statements
              THEN Len(batch.data) ELSE batch.statements
        /\ batch.type = "data" =>
              \A i \in 1..Len(batch.data) : batch.returned[i] = batch.data[i]

\* a data envelope with fewer sets than statements: a filled slot and a
\* defaulted slot in one list
C14_Witness ==
    /\ batch.done
    /\ batch.type = "data"
    /\ Len(batch.data) > 0
    /\ Len(batch.data) < batch.statements
    /\ batch.data[1] # EmptyResult
    /\ batch.returned[1] = batch.data[1]
    /\ batch.returned[batch.statements] = EmptyResult

\* C15: in an overwriteDatabaseFile or deleteDatabaseFile with a beforeUnlock
\* hook the import or delete request is sent in the step that acquires the
\* exclusive lock; the hook starts on that request's success answer; while
\* the hook runs the operation holds the exclusive lock and no notice of it
\* is posted; a query of the hook is posted at once, with no wait for a lock
\* and no shared lock taken; the notice is posted when the hook has
\* returned, the operation resolves only with its notice posted, and the
\* lock is given up in that step and in no earlier one.
HookedFileOp(t) == task[t].kind \in {"overwrite", "delete"} /\ task[t].hook

C15_HookRunsUnderTheLock ==
    [][\A t \in Tasks : HookedFileOp(t)' =>
          /\ FileRequests(t)' # FileRequests(t) =>
                task[t].pc = "exWait" /\ excl = NoTask /\ excl' = t
          /\ task[t].pc # "hook" /\ task'[t].pc = "hook" =>
                /\ task[t].pc = "await"
                /\ task[t].step \in {"file", "hookStmt"}
                /\ answered' \ answered \in {{<<task[t].key, "success">>},
                                             {<<task[t].key, "data">>}}
          /\ task'[t].pc = "hook" =>
                /\ excl' = t
                /\ FileAcknowledged(t)'
                /\ NoticeOf(t)' \notin notices'
          /\ task'[t].pc # "cqWait"
          /\ task[t].pc = "hook" /\ task'[t].pc \notin {"hook", "done"} =>
                /\ task'[t].pc = "await"
                /\ \E m \in sent' \ sent :
                       m.task = t /\ m.type = "query" /\ m.queryKey = task'[t].key
                /\ excl' = t
                /\ t \notin shared'
          /\ NoticeOf(t)' \in notices' \ notices =>
                /\ task[t].pc = "hook"
                /\ excl = t
                /\ excl' = NoTask
          /\ task[t].outcome = "none" /\ task'[t].outcome = "resolved" =>
                NoticeOf(t)' \in notices' \ notices
          /\ excl = t /\ excl' # t => task'[t].pc = "done"]_vars

\* an overwrite or delete whose hook made a query that was answered, and
\* which then posted its notice and resolved
C15_Witness ==
    \E t \in Tasks :
        /\ HookedFileOp(t)
        /\ task[t].outcome = "resolved"
        /\ NoticeOf(t) \in notices
        /\ \E m \in SentBy(t) : m.type = "query" /\ <<m.queryKey, "data">> \in answered

\* C16: a client that processes a terminal message whose key is pending
\* removes that entry and settles that call, rejecting it with the engine's
\* error for the request when the message is an error and resuming it
\* without that error otherwise, and throws nothing; when the key is missing
\* or not pending, the pending call table and every call are left as they
\* were, and the message's error is thrown exactly when it is an error.
StrayNow == IF stray' = stray THEN {} ELSE {stray'[Len(stray')]}

C16_TerminalDispatch ==
    [][\A c \in Clients : processed'[c] # processed[c] =>
          IF StrayNow = {}
          THEN /\ uncaught' = uncaught
               /\ \E a \in answered' \ answered : \E t \in PendingCalls(c, a[1]) :
                     /\ a[1] \in queriesInProgress[c]
                     /\ a[1] \notin queriesInProgress'[c]
                     /\ queriesInProgress'[c] \ queriesInProgress[c]
                            \subseteq {task'[t].key}
                     /\ a[2] = "error" =>
                            EngineErr(task[t].step) \in {task'[t].error, task'[t].err}
                     /\ a[2] # "error" =>
                            /\ task'[t].err = task[t].err
                            /\ task'[t].error # EngineErr(task[t].step)
                            /\ task'[t] # task[t]
          ELSE /\ queriesInProgress' = queriesInProgress
               /\ task' = task
               /\ \A m \in StrayNow :
                     /\ m.client = c
                     /\ m.queryKey \notin queriesInProgress[c]
                     /\ uncaught' =
                            IF m.type = "error"
                            THEN [uncaught EXCEPT ![c] = Append(@, FatalErr)]
                            ELSE uncaught]_vars

\* while a call is pending, its client has thrown the error of a message
\* that carried no pending key; and a pending call was rejected by an error
\* message
C16_Witness ==
    /\ \E c \in Clients :
          /\ uncaught[c] # <<>>
          /\ queriesInProgress[c] # {}
    /\ \E t \in Tasks : task[t].error = EngineErr("plain")

\* C17: a client's bypassMutationLock is true exactly while one of its own
\* guarded operations holds the exclusive lock and is a transaction() past
\* the lock's grant or an overwrite/delete whose beforeUnlock hook has
\* started; with no such operation of the client the flag is false.
InHook(t) ==
    /\ HookedFileOp(t)
    /\ \/ task[t].pc = "hook"
       \/ task[t].pc = "await" /\ task[t].step = "hookStmt"

FlagOwner(c, t) ==
    /\ task[t].client = c
    /\ excl = t
    /\ task[t].pc \notin {"exWait", "done"}
    /\ task[t].kind = "transaction" \/ InHook(t)

C17_FlagOnlyUnderOwnExclusiveLock ==
    \A c \in Clients :
        bypassMutationLock[c] <=> \E t \in Tasks : FlagOwner(c, t)

\* the flag is set for the hook of a file operation after an earlier
\* guarded operation of the same client set and reset it
C17_Witness ==
    \E t1 \in Tasks, t2 \in Tasks :
        /\ task[t1].kind = "transaction" /\ task[t1].pc = "done"
        /\ SentBy(t1) # {}
        /\ task[t2].client = task[t1].client
        /\ InHook(t2)
        /\ bypassMutationLock[task[t2].client]

\* C18: when the engine answers every request and bodies and hooks
\* terminate, every transaction() call made while no destroy() is ever
\* called ends settled and without the exclusive lock (and so was
\* admitted); and no request of a transaction() call ever waits for a lock.
DestroyCalled == \E t \in Tasks : task[t].kind = "destroy"

TransactionEnded(t) ==
    /\ task[t].pc = "done"
    /\ task[t].outcome \in {"resolved", "rejected"}
    /\ excl # t
    /\ t \notin shared

HoldsTicket(t) == excl = t \/ t \in shared

C19_DestroyReleasesTickets ==
    \A c \in Clients :
        isWorkerDestroyed[c]
            ~> (\A t \in Tasks : task[t].client = c => ~HoldsTicket(t))

\* C20: a guarded operation called and awaited from inside a transaction
\* body or a beforeUnlock hook is in every state still waiting for the
\* exclusive lock and has sent nothing, while the operation it was called
\* from is unsettled, still in its body or hook, and holds the exclusive
\* lock.
Inner(t) == task[t].parent # NoTask

C20_NestedExclusiveNeverAdmitted ==
    \A t \in Tasks : Inner(t) =>
        /\ task[t].pc = "exWait"
        /\ SentBy(t) = {}
        /\ task[task[t].parent].pc \in {"body", "hook"}
        /\ task[task[t].parent].outcome = "none"
        /\ excl = task[t].parent

\* a hook called a transaction() of its own client, whose flag is set, and
\* the engine has answered everything that was posted
C20_Witness ==
    \E t \in Tasks :
        /\ Inner(t)
        /\ task[t].kind = "transaction"
        /\ task[task[t].parent].pc = "hook"
        /\ task[t].client = task[task[t].parent].client
        /\ bypassMutationLock[task[t].client]
        /\ \A m \in sent : Answered(m.queryKey)


====
